---- MODULE Spec2Model ----
(***************************************************************************)
(* Authentication state machine of st_login_form.                          *)
(*                                                                         *)
(* Two code lines of the repository are modelled side by side:             *)
(*   impl = "login_form" : src/st_login_form/__init__.py (login_form and   *)
(*                         hash_current_passwords, SQL or Supabase store)  *)
(*   impl = "helpers"    : src/st_login_form/_helpers/{auth,forms,db}.py   *)
(* The user store is the external table; the session is st.session_state.  *)
(***************************************************************************)
EXTENDS Integers, Sequences, FiniteSets, TLC

VARIABLES cfg, store, session, last

vars == <<cfg, store, session, last>>

-----------------------------------------------------------------------------
(* Strings.  A password-column value or a typed password is a record:      *)
(*   kind = "text": the characters are chars (no salt, no params)          *)
(*   kind = "hash": the encoded argon2id hash "$argon2id$v=..$m=..$salt$.."*)
(*                  of the characters chars, under salt and cost params    *)

Text(cs) == [kind |-> "text", chars |-> cs, salt |-> 0, params |-> "none"]

\* "$argon2id$"
HashTag == <<"$", "a", "r", "g", "o", "n", "2", "i", "d", "$">>

\* Bound: number of distinct salts the hasher can draw.
MaxSalt == 2

Salts == 1..MaxSalt

\* Cost parameters of the hasher now configured (argon2.PasswordHasher()
\* defaults); a hash with other parameters was made by an older configuration.
CurrentParams == "current"

OldParams == "older"

PwEmpty == Text(<< >>)

\* "Abc12345!"
PwGood == Text(<<"A", "b", "c", "1", "2", "3", "4", "5", "!">>)

\* "plaintext123"
PwPlain == Text(<<"p", "l", "a", "i", "n", "t", "e", "x", "t", "1", "2", "3">>)

\* "$argon2id$Aa1": typed text that begins with the hash tag
PwTagged == Text(HashTag \o <<"A", "a", "1">>)

\* Passwords a submitter types.
Passwords == {PwEmpty, PwGood, PwPlain, PwTagged}

UpperChars ==
  {"A", "B", "C", "D", "E", "F", "G", "H", "I", "J", "K", "L", "M",
   "N", "O", "P", "Q", "R", "S", "T", "U", "V", "W", "X", "Y", "Z"}

LowerChars ==
  {"a", "b", "c", "d", "e", "f", "g", "h", "i", "j", "k", "l", "m",
   "n", "o", "p", "q", "r", "s", "t", "u", "v", "w", "x", "y", "z"}

DigitChars == {"0", "1", "2", "3", "4", "5", "6", "7", "8", "9"}

\* special_chars = "@$!%*?&_^#- "
SpecialChars == {"@", "$", "!", "%", "*", "?", "&", "_", "^", "#", "-", " "}

MinLength == 8

\* str.startswith("$argon2id$")
StartsWithTag(s) ==
  IF s.kind = "hash"
  THEN TRUE
  ELSE /\ Len(s.chars) >= Len(HashTag)
       /\ SubSeq(s.chars, 1, Len(HashTag)) = HashTag

\* not val  (an empty text input)
IsEmptyStr(s) == s.kind = "text" /\ Len(s.chars) = 0

HasChar(cs, set) == \E i \in 1..Len(cs) : cs[i] \in set

\* A validator without the digit requirement.
validate_password_no_digit(password, min_length, special_chars) ==
  /\ Len(password.chars) >= min_length
  /\ HasChar(password.chars, UpperChars)
  /\ HasChar(password.chars, LowerChars)
  /\ HasChar(password.chars, special_chars)

\* validate_password(password, min_length, special_chars)
validate_password_params(password, min_length, special_chars) ==
  /\ Len(password.chars) >= min_length
  /\ HasChar(password.chars, UpperChars)
  /\ HasChar(password.chars, LowerChars)
  /\ HasChar(password.chars, DigitChars)
  /\ HasChar(password.chars, special_chars)

\* validate_password(password): the call of the forms, with the defaults
validate_password(password) ==
  validate_password_params(password, MinLength, SpecialChars)

-----------------------------------------------------------------------------
(* The hasher (Authenticator / _Authenticator, an argon2.PasswordHasher).   *)

\* self.hash(password): a fresh salted hash under the current parameters.
Argon2Hash(password, salt) ==
  [kind |-> "hash", chars |-> password.chars, salt |-> salt,
   params |-> CurrentParams]

\* A verification that rejects every value that is not a well-formed hash as
\* an invalid hash.
Argon2VerifyRejectsMalformed(hashed, plain) ==
  IF hashed.kind = "hash"
  THEN IF plain.kind = "text" /\ plain.chars = hashed.chars
       THEN "ok"
       ELSE "VerifyMismatchError"
  ELSE "InvalidHashError"

\* self.verify(hash, password): TRUE, or one of the library's exceptions.
Argon2Verify(hashed, plain) ==
  IF hashed.kind = "hash"
  THEN IF plain.kind = "text" /\ plain.chars = hashed.chars
       THEN "ok"
       ELSE "VerifyMismatchError"
  ELSE IF StartsWithTag(hashed)
       THEN "VerificationError"
       ELSE "InvalidHashError"

\* A hasher that hashes whatever it is given.
generate_pwd_hash_always(password, salt) == Argon2Hash(password, salt)

generate_pwd_hash(password, salt) ==
  IF StartsWithTag(password) THEN password ELSE Argon2Hash(password, salt)

\* An except clause that catches the mismatch only.
verify_password_mismatch_only(hashed, plain) ==
  LET r == Argon2Verify(hashed, plain)
  IN  IF r = "ok" THEN "true"
      ELSE IF r = "VerifyMismatchError" THEN "false"
      ELSE "raise"

\* A verification that accepts every password against a well-formed hash.
verify_password_accepts_all(hashed, plain) ==
  LET r == Argon2Verify(hashed, plain)
  IN  IF r \in {"ok", "VerifyMismatchError"} THEN "true"
      ELSE IF r = "VerificationError" THEN "false"
      ELSE "raise"

\* "true" / "false", or "raise" for an exception the except clause lets pass.
verify_password(hashed, plain) ==
  LET r == Argon2Verify(hashed, plain)
  IN  IF r = "ok" THEN "true"
      ELSE IF r \in {"VerifyMismatchError", "VerificationError"} THEN "false"
      ELSE "raise"

\* auth.check_needs_rehash(hash) of a well-formed hash
check_needs_rehash(hashed) == hashed.params # CurrentParams

-----------------------------------------------------------------------------
(* Configuration, store rows, session.                                      *)

\* Python None (an absent username or role, a NULL role column)
NoneVal == "<None>"

Usernames == {"", "alice", "bob"}

\* str.lower() on the role strings in play
Lower(r) ==
  CASE r = "Admin" -> "admin"
    [] r = "User" -> "user"
    [] OTHER -> r

HelperConfigs ==
  [impl : {"helpers"}, conn : {"supabase"}, constrain_password : BOOLEAN,
   retrieve_role : {FALSE}, role_col : {"role"}, role_default : {"user"},
   allow_guest : BOOLEAN, allow_create : BOOLEAN]

\* role_col and role_default are read only under retrieve_role, and the name
\* of the role column matters only for a Supabase response; elsewhere they
\* keep their defaults.
LoginFormConfigs ==
  { c \in [impl : {"login_form"}, conn : {"sql", "supabase"},
           constrain_password : BOOLEAN, retrieve_role : BOOLEAN,
           role_col : {"role", "user_role"}, role_default : {"user", "Admin"},
           allow_guest : BOOLEAN, allow_create : BOOLEAN] :
      /\ (c.role_col # "role" => c.retrieve_role /\ c.conn = "supabase")
      /\ (c.role_default = "Admin" <=> c.retrieve_role) }

Configs == HelperConfigs \cup LoginFormConfigs

Row(pw, role) == [present |-> TRUE, password |-> pw, role |-> role]

NoRow == [present |-> FALSE, password |-> PwEmpty, role |-> NoneVal]

\* Rows the table may hold before the first run: a legacy plaintext value, a
\* hash made under older cost parameters, a current hash, and a value that
\* carries the tag without being a well-formed hash.
LegacyRow(role) == Row(PwPlain, role)

OldHashRow(role) ==
  Row([kind |-> "hash", chars |-> PwGood.chars, salt |-> 1, params |-> OldParams],
      role)

MalformedRow(role) == Row(PwTagged, role)

\* The role column is read only under retrieve_role; without it the rows are
\* taken with a NULL role.
InitRoles(c) == IF c.retrieve_role THEN {NoneVal, "Admin"} ELSE {NoneVal}

AliceInitRows(c) ==
  {NoRow} \cup { LegacyRow(r) : r \in InitRoles(c) }
          \cup { OldHashRow(r) : r \in InitRoles(c) }
          \cup { MalformedRow(NoneVal) }

\* A second legacy row is taken together with a first one.
BobInitRows(a) ==
  IF a = LegacyRow(NoneVal) THEN {NoRow, LegacyRow(NoneVal)} ELSE {NoRow}

InitStores(c) ==
  UNION { { [u \in Usernames |->
               IF u = "alice" THEN a ELSE IF u = "bob" THEN b ELSE NoRow] :
            b \in BobInitRows(a) } : a \in AliceInitRows(c) }

\* st.session_state after the initialisation at the top of login_form
InitSession ==
  [authenticated |-> FALSE, username |-> NoneVal, role |-> NoneVal]

\* A login_success that records the identity and leaves the flag unset.
login_success_flag_unset(s, username, role) ==
  [authenticated |-> FALSE, username |-> username, role |-> role]

\* login_success(username, role)
login_success(s, username, role) ==
  [authenticated |-> TRUE,
   username |-> username,
   role |-> IF role # NoneVal THEN Lower(role) ELSE s.role]

\* _set_authenticated(username)
set_authenticated(s, username) ==
  [s EXCEPT !.authenticated = TRUE, !.username = username]

\* A reset that clears the flag and keeps the username.
reset_keeps_username(s) == [s EXCEPT !.authenticated = FALSE]

\* _reset_authentication()
reset_authentication(s) ==
  [s EXCEPT !.authenticated = FALSE, !.username = NoneVal]

\* Controls that stay enabled after authentication.
DisabledNever(s) == FALSE

\* disabled=st.session_state["authenticated"]: a disabled button cannot be
\* pressed, so the handler's submit branch is not taken.
Disabled(s) == s.authenticated

-----------------------------------------------------------------------------
(* The store (the users table behind the connection).                       *)

\* A lookup without the WHERE clause: it returns the first row of the table.
SelectRowsUnfiltered(st, u) ==
  IF st["alice"].present THEN <<st["alice"]>> ELSE << >>

\* SELECT ... WHERE username_col = :username / .select().eq().execute()
SelectRows(st, u) == IF st[u].present THEN <<st[u]>> ELSE << >>

\* An update that writes the whole row and leaves the role column empty.
UpdateWholeRow(st, u, pw) ==
  IF st[u].present THEN [st EXCEPT ![u] = Row(pw, NoneVal)] ELSE st

\* UPDATE ... SET password_col = :pwd WHERE username_col = :user
UpdatePassword(st, u, pw) ==
  IF st[u].present THEN [st EXCEPT ![u].password = pw] ELSE st

\* An insert that overwrites on conflict (an upsert).
InsertNeverViolates(st, u) == FALSE

\* The table's uniqueness constraint on the username column.
InsertViolates(st, u) == st[u].present

\* An insert that reports success and writes no row.
InsertRowDropped(st, u, pw, role) == st

\* INSERT INTO ... / .insert().execute()
InsertRow(st, u, pw, role) == [st EXCEPT ![u] = Row(pw, role)]

-----------------------------------------------------------------------------
(* One run of a handler: the session and store it leaves, the store calls,  *)
(* verifications and rehash checks it made in order, the message shown, and *)
(* how it ended:                                                            *)
(*   "inert"    the button was not pressed (disabled)                       *)
(*   "stopped"  st.stop()            "returned" the handler returned        *)
(*   "rerun"    st.rerun()           "raised"   an exception left it        *)

Run(s, st, evs, msg, out) ==
  [session |-> s, store |-> st, events |-> evs, message |-> msg, outcome |-> out]

Ev(e, u, v, ok) == [e |-> e, u |-> u, v |-> v, ok |-> ok]

Inert(s, st) == Run(s, st, << >>, "none", "inert")

StoreCalls(evs) ==
  { i \in 1..Len(evs) : evs[i].e \in {"select", "insert", "update", "upsert"} }

\* A store fault is injected at the k-th store call of a run (0: none).  A
\* create-account run makes one store call, a login run at most two, a bulk
\* run one scan and one update per legacy row.
CreateFaults == {0, 1}

LoginFaults == {0, 1, 2}

BulkFaults == {0, 1, 2, 3}

-----------------------------------------------------------------------------
(* login_form of __init__.py: the three sub-flows.                          *)

\* A rehash that writes the value back as it was read.
RehashValueUnhashed(password, salt) == password

\* rehash_pwd_in_db(password, username): the hash it writes
RehashValue(password, salt) == generate_pwd_hash(password, salt)

\* data[0].get("role", ""): the SQL branch stores the column under the key
\* "role"; the Supabase response is keyed by the column's own name.
RoleRead(c, row) ==
  IF c.conn = "sql" \/ c.role_col = "role" THEN row.role ELSE ""

\* Create new account (the form under "if allow_create")
LoginFormCreate(c, s, st, u, p, salt, fault) ==
  IF Disabled(s) THEN Inert(s, st)
  ELSE
    LET hashed == generate_pwd_hash(p, salt)
        role == IF c.retrieve_role THEN Lower(c.role_default) ELSE NoneVal
        failed == [s EXCEPT !.authenticated = FALSE]
    IN  IF c.constrain_password /\ ~validate_password(p)
        THEN Run(s, st, << >>, "password_constraint_check_fail", "stopped")
        ELSE IF c.conn = "sql" /\ c.retrieve_role
        THEN \* params["role"] = ...: params is not defined (NameError, caught)
             Run(failed, st, << >>, "exception_text", "returned")
        ELSE IF fault = 1 \/ InsertViolates(st, u)
        THEN Run(failed, st, <<Ev("insert", u, hashed, FALSE)>>,
                 "exception_text", "returned")
        ELSE Run(login_success(s, u, NoneVal), InsertRow(st, u, hashed, role),
                 <<Ev("insert", u, hashed, TRUE)>>, "none", "rerun")

\* Login to existing account: the part after a successful verification
LoginFormVerified(c, s, st, u, p, row, db, evs, salt, rehashFault) ==
  LET rawRole == IF c.retrieve_role THEN RoleRead(c, row) ELSE NoneVal
  IN  IF c.retrieve_role /\ rawRole = NoneVal
      THEN \* None.lower(): AttributeError
           Run(s, st, evs, "none", "raised")
      ELSE
        LET role == IF c.retrieve_role THEN Lower(rawRole) ELSE NoneVal
            s1 == login_success(s, u, role)
            needs == check_needs_rehash(db)
            evs1 == Append(evs, Ev("needs_rehash", u, db, needs))
            h2 == RehashValue(p, salt)
        IN  IF ~needs THEN Run(s1, st, evs1, "none", "rerun")
            ELSE IF rehashFault
            THEN Run(s1, st, Append(evs1, Ev("update", u, h2, FALSE)),
                     "none", "raised")
            ELSE Run(s1, UpdatePassword(st, u, h2),
                     Append(evs1, Ev("update", u, h2, TRUE)), "none", "rerun")

\* Login to existing account
LoginFormLogin(c, s, st, u, p, salt, fault) ==
  IF Disabled(s) THEN Inert(s, st)
  ELSE
    LET failed == [s EXCEPT !.authenticated = FALSE]
        sel == Ev("select", u, PwEmpty, fault # 1)
        data == SelectRows(st, u)
    IN  IF fault = 1 THEN Run(s, st, <<sel>>, "none", "raised")
        ELSE IF Len(data) = 0
        THEN Run(failed, st, <<sel>>, "login_error_message", "returned")
        ELSE
          LET db0 == data[1].password
              legacy == ~StartsWithTag(db0)
              h1 == RehashValue(db0, salt)
              upd == Ev("update", u, h1, fault # 2)
          IN  IF legacy /\ fault = 2
              THEN Run(s, st, <<sel, upd>>, "none", "raised")
              ELSE
                LET st1 == IF legacy THEN UpdatePassword(st, u, h1) ELSE st
                    db == IF legacy THEN h1 ELSE db0
                    evs == IF legacy THEN <<sel, upd>> ELSE <<sel>>
                    ver == verify_password(db, p)
                    evs1 == Append(evs, Ev("verify", u, db, ver = "true"))
                IN  IF ver = "raise" THEN Run(s, st1, evs1, "none", "raised")
                    ELSE IF ver = "false"
                    THEN Run(failed, st1, evs1, "login_error_message", "returned")
                    ELSE LoginFormVerified(c, s, st1, u, p, data[1], db, evs1,
                                           salt, fault = Len(evs) + 1)

\* Guest login (the button under "if allow_guest")
LoginFormGuest(s, st) ==
  IF Disabled(s) THEN Inert(s, st)
  ELSE Run([authenticated |-> TRUE, username |-> NoneVal, role |-> "guest"],
           st, << >>, "none", "rerun")

-----------------------------------------------------------------------------
(* _helpers/forms.py: the three handlers.                                   *)

\* _get_validated_inputs: some submitted field is empty
MissingFields(u, fields) == u = "" \/ \E f \in fields : IsEmptyStr(f)

HandleCreateAccount(c, s, st, u, p, retype, salt, fault) ==
  IF Disabled(s) THEN Inert(s, st)
  ELSE IF MissingFields(u, {p, retype})
  THEN Run(s, st, << >>, "fill_in_all_fields", "stopped")
  ELSE IF p # retype
  THEN Run(s, st, << >>, "password_mismatch_message", "stopped")
  ELSE IF c.constrain_password /\ ~validate_password(p)
  THEN Run(s, st, << >>, "password_fail_message", "stopped")
  ELSE
    LET hashed == generate_pwd_hash(p, salt)
    IN  IF fault = 1 \/ InsertViolates(st, u)
        THEN Run(reset_authentication(s), st, <<Ev("insert", u, hashed, FALSE)>>,
                 "exception_text", "stopped")
        ELSE Run(set_authenticated(s, u), InsertRow(st, u, hashed, NoneVal),
                 <<Ev("insert", u, hashed, TRUE)>>, "none", "rerun")

HandleLogin(c, s, st, u, p, salt, fault) ==
  IF Disabled(s) THEN Inert(s, st)
  ELSE IF MissingFields(u, {p})
  THEN Run(s, st, << >>, "fill_in_all_fields", "stopped")
  ELSE
    LET sel == Ev("select", u, PwEmpty, fault # 1)
        data == SelectRows(st, u)
    IN  IF fault = 1
        THEN Run(reset_authentication(s), st, <<sel>>, "exception_text", "returned")
        ELSE IF Len(data) = 0
        THEN Run(reset_authentication(s), st, <<sel>>, "login_error_message", "returned")
        ELSE
          LET db0 == data[1].password
              legacy == ~StartsWithTag(db0)
              h1 == RehashValue(db0, salt)
              upd == Ev("update", u, h1, fault # 2)
          IN  IF legacy /\ fault = 2
              THEN Run(s, st, <<sel, upd>>, "none", "raised")
              ELSE
                LET st1 == IF legacy THEN UpdatePassword(st, u, h1) ELSE st
                    db == IF legacy THEN h1 ELSE db0
                    evs == IF legacy THEN <<sel, upd>> ELSE <<sel>>
                    ver == verify_password(db, p)
                    evs1 == Append(evs, Ev("verify", u, db, ver = "true"))
                    s1 == set_authenticated(s, u)
                    needs == check_needs_rehash(db)
                    evs2 == Append(evs1, Ev("needs_rehash", u, db, needs))
                    h2 == RehashValue(p, salt)
                IN  IF ver = "raise" THEN Run(s, st1, evs1, "none", "raised")
                    ELSE IF ver = "false"
                    THEN Run(reset_authentication(s), st1, evs1, "login_error_message",
                             "returned")
                    ELSE IF ~needs THEN Run(s1, st1, evs2, "none", "rerun")
                    ELSE IF fault = Len(evs) + 1
                    THEN Run(s1, st1, Append(evs2, Ev("update", u, h2, FALSE)),
                             "none", "raised")
                    ELSE Run(s1, UpdatePassword(st1, u, h2),
                             Append(evs2, Ev("update", u, h2, TRUE)), "none", "rerun")

\* A guest login that enters a placeholder username.
HandleGuestLoginNamed(s, st) ==
  IF Disabled(s) THEN Inert(s, st)
  ELSE Run(set_authenticated(s, "guest"), st, << >>, "none", "rerun")

HandleGuestLogin(s, st) ==
  IF Disabled(s) THEN Inert(s, st)
  ELSE Run(set_authenticated(s, NoneVal), st, << >>, "none", "rerun")

-----------------------------------------------------------------------------
(* hash_current_passwords: the bulk maintenance operation.                  *)

\* Orders in which the store may return the rows of a scan.
ScanOrders == { <<"", "alice", "bob">>, <<"bob", "alice", "">> }

IsLegacy(st, u) == st[u].present /\ ~StartsWithTag(st[u].password)

\* ... WHERE password_col NOT LIKE '$argon2id$%'
ScanUnhashed(st, order) == SelectSeq(order, LAMBDA u : IsLegacy(st, u))

\* for pair in user_pass_dicts: hash, then one update per row (the k-th store
\* call of the run); a store error leaves the loop by the exception.
RECURSIVE UpdateEach(_, _, _, _, _, _, _)
UpdateEach(s, st, rows, k, salt, fault, evs) ==
  IF rows = << >>
  THEN Run(s, st, evs, "all_passwords_hashed", "returned")
  ELSE
    LET u == Head(rows)
        h == generate_pwd_hash(st[u].password, salt)
    IN  IF fault = k
        THEN Run(s, st, Append(evs, Ev("update", u, h, FALSE)), "none", "raised")
        ELSE UpdateEach(s, UpdatePassword(st, u, h), Tail(rows), k + 1, salt,
                        fault, Append(evs, Ev("update", u, h, TRUE)))

\* client.table(...).upsert(updates): every listed row in one store call
RECURSIVE UpsertAll(_, _, _)
UpsertAll(st, rows, salt) ==
  IF rows = << >> THEN st
  ELSE UpsertAll(UpdatePassword(st, Head(rows),
                                generate_pwd_hash(st[Head(rows)].password, salt)),
                 Tail(rows), salt)

\* __init__.py (SQL or Supabase) and db.py (Supabase): one update per row
HashCurrentPasswordsLoop(c, s, st, order, salt, fault) ==
  IF c.impl = "login_form" /\ c.conn = "sql"
  THEN \* get_fully_qualified_name is local to login_form (NameError)
       Run(s, st, << >>, "none", "raised")
  ELSE
    LET sel == Ev("select", NoneVal, PwEmpty, fault # 1)
        rows == ScanUnhashed(st, order)
    IN  IF fault = 1 THEN Run(s, st, <<sel>>, "none", "raised")
        ELSE IF Len(rows) = 0
        THEN Run(s, st, <<sel>>, "all_passwords_already_hashed", "returned")
        ELSE UpdateEach(s, st, rows, 2, salt, fault, <<sel>>)

\* _helpers/db.py: one upsert of all rows
HashCurrentPasswordsUpsert(s, st, order, salt, fault) ==
  LET sel == Ev("select", NoneVal, PwEmpty, fault # 1)
      rows == ScanUnhashed(st, order)
      ups == Ev("upsert", NoneVal, PwEmpty, fault # 2)
  IN  IF fault = 1 THEN Run(s, st, <<sel>>, "none", "raised")
      ELSE IF Len(rows) = 0
      THEN Run(s, st, <<sel>>, "all_passwords_already_hashed", "returned")
      ELSE IF fault = 2 THEN Run(s, st, <<sel, ups>>, "none", "raised")
      ELSE Run(s, UpsertAll(st, rows, salt), <<sel, ups>>,
               "all_passwords_hashed", "returned")

-----------------------------------------------------------------------------
(* The state machine.                                                       *)
(*   cfg      options of the deployment, fixed for a behaviour              *)
(*   store    the users table: username -> row                              *)
(*   session  st.session_state: authenticated, username, role              *)
(*   last     the operation that led to this state, what was submitted and  *)
(*            the run it made (events, message, outcome)                    *)

\* The text inputs of a form are disabled together with its button: an inert
\* run carries no submitted username or password.
Last(op, u, p, r) ==
  [op |-> op,
   username |-> IF r.outcome = "inert" THEN NoneVal ELSE u,
   password |-> IF r.outcome = "inert" THEN PwEmpty ELSE p,
   events |-> r.events, message |-> r.message, outcome |-> r.outcome]

Apply(op, u, p, r) ==
  /\ session' = r.session
  /\ store' = r.store
  /\ last' = Last(op, u, p, r)
  /\ UNCHANGED cfg

\* What can be typed into the text inputs of a form: they are disabled (and so
\* left empty) while the session is authenticated.
TypedUsernames(s) == IF Disabled(s) THEN {""} ELSE Usernames

TypedPasswords(s) == IF Disabled(s) THEN {PwEmpty} ELSE Passwords

Init ==
  /\ cfg \in Configs
  /\ store \in InitStores(cfg)
  /\ session = InitSession
  /\ last = Last("init", NoneVal, PwEmpty, Inert(InitSession, store))

CreateAccount ==
  /\ cfg.allow_create
  /\ \E u \in TypedUsernames(session), p \in TypedPasswords(session),
        salt \in Salts, fault \in CreateFaults :
       IF cfg.impl = "login_form"
       THEN Apply("create", u, p,
                  LoginFormCreate(cfg, session, store, u, p, salt, fault))
       ELSE \E retype \in {p, PwPlain} :
              Apply("create", u, p,
                    HandleCreateAccount(cfg, session, store, u, p, retype, salt,
                                        fault))

Login ==
  \E u \in TypedUsernames(session), p \in TypedPasswords(session),
     salt \in Salts, fault \in LoginFaults :
    Apply("login", u, p,
          IF cfg.impl = "login_form"
          THEN LoginFormLogin(cfg, session, store, u, p, salt, fault)
          ELSE HandleLogin(cfg, session, store, u, p, salt, fault))

GuestLogin ==
  /\ cfg.allow_guest
  /\ Apply("guest", NoneVal, PwEmpty,
           IF cfg.impl = "login_form"
           THEN LoginFormGuest(session, store)
           ELSE HandleGuestLogin(session, store))

\* The application ends the session with _reset_authentication().
Logout ==
  /\ cfg.impl = "helpers"
  /\ Apply("logout", NoneVal, PwEmpty,
           Run(reset_authentication(session), store, << >>, "none", "returned"))

HashCurrentPasswords ==
  \E order \in ScanOrders, salt \in Salts, fault \in BulkFaults :
    \/ Apply("bulk", NoneVal, PwEmpty,
             HashCurrentPasswordsLoop(cfg, session, store, order, salt, fault))
    \/ /\ cfg.impl = "helpers"
       /\ Apply("bulk", NoneVal, PwEmpty,
                HashCurrentPasswordsUpsert(session, store, order, salt, fault))

Next ==
  \/ CreateAccount
  \/ Login
  \/ GuestLogin
  \/ Logout
  \/ HashCurrentPasswords

Spec == Init /\ [][Next]_vars

-----------------------------------------------------------------------------
(* The hasher on its own (Authenticator / _Authenticator): a typed text is  *)
(* hashed, the result is hashed again or verified against a second text.    *)
(* The store and the session play no part; last records the text hashed in  *)
(* password and the results in events ("hash": the value returned;          *)
(* "verify": the text verified and whether True was returned).              *)

\* Typed texts: the submitters' passwords, each also behind the hash tag.
HasherTexts == Passwords \cup { Text(HashTag \o p.chars) : p \in Passwords }

\* login_form(...) with the defaults of its signature
DefaultConfig ==
  [impl |-> "login_form", conn |-> "supabase", constrain_password |-> TRUE,
   retrieve_role |-> FALSE, role_col |-> "role", role_default |-> "user",
   allow_guest |-> TRUE, allow_create |-> TRUE]

EmptyStore == [u \in Usernames |-> NoRow]

HasherStep(op, p, evs, out) ==
  /\ last' = Last(op, NoneVal, p, Run(session, store, evs, "none", out))
  /\ UNCHANGED <<cfg, store, session>>

HasherInit ==
  /\ cfg = DefaultConfig
  /\ store = EmptyStore
  /\ session = InitSession
  /\ \E p \in HasherTexts :
       last = Last("text", NoneVal, p, Run(session, store, << >>, "none", "returned"))

\* h = auth.generate_pwd_hash(p)
HashPassword ==
  /\ last.op = "text"
  /\ \E salt \in Salts :
       HasherStep("hash", last.password,
                  <<Ev("hash", NoneVal, generate_pwd_hash(last.password, salt), TRUE)>>,
                  "returned")

\* auth.generate_pwd_hash(h)
HashAgain ==
  /\ last.op = "hash"
  /\ \E salt \in Salts :
       HasherStep("hash_again", last.password,
                  Append(last.events,
                         Ev("hash", NoneVal,
                            generate_pwd_hash(last.events[1].v, salt), TRUE)),
                  "returned")

\* auth.verify_password(h, q)
VerifyPassword ==
  /\ last.op = "hash"
  /\ \E q \in HasherTexts :
       LET r == verify_password(last.events[1].v, q)
       IN  HasherStep("verify", last.password,
                      Append(last.events, Ev("verify", NoneVal, q, r = "true")),
                      IF r = "raise" THEN "raised" ELSE "returned")

HasherNext ==
  \/ HashPassword
  \/ HashAgain
  \/ VerifyPassword

HasherSpec == HasherInit /\ [][HasherNext]_vars

-----------------------------------------------------------------------------
(* The password validator on its own (validate_password /                   *)
(* _validate_password).  A text is put together from at most one uppercase  *)
(* letter, one lowercase letter, one digit, one punctuation character and a  *)
(* run of a filler character that belongs to none of the classes; last      *)
(* records the text in password and, in events, how it was put together     *)
(* ("text") and the arguments and result of the call ("validate").          *)

\* Bound: longest run of filler characters.
MaxPad == 5

\* Bound: a min_length argument other than the default.
AltMinLength == 5

MinLengths == {MinLength, AltMinLength}

\* special_chars arguments: the default and a caller's own "+".
SpecialCharSets == {SpecialChars, {"+"}}

\* Punctuation put into a text ("" : none).
Punctuation == {"", "!", "+"}

\* "~": not upper, lower, digit, nor in any special_chars in play
Filler == "~"

RECURSIVE Pad(_)
Pad(n) == IF n = 0 THEN << >> ELSE <<Filler>> \o Pad(n - 1)

Parts == [upper : BOOLEAN, lower : BOOLEAN, digit : BOOLEAN,
          punct : Punctuation, pad : 0..MaxPad]

Compose(parts) ==
  Text((IF parts.upper THEN <<"A">> ELSE << >>)
       \o (IF parts.lower THEN <<"b">> ELSE << >>)
       \o (IF parts.digit THEN <<"1">> ELSE << >>)
       \o (IF parts.punct # "" THEN <<parts.punct>> ELSE << >>)
       \o Pad(parts.pad))

ValidatorInit ==
  /\ cfg = DefaultConfig
  /\ store = EmptyStore
  /\ session = InitSession
  /\ \E parts \in Parts :
       last = Last("text", NoneVal, Compose(parts),
                   Run(session, store, <<Ev("text", NoneVal, parts, TRUE)>>,
                       "none", "returned"))

\* validate_password(password, min_length, special_chars)
ValidatePassword ==
  /\ last.op = "text"
  /\ \E min_length \in MinLengths, special_chars \in SpecialCharSets :
       HasherStep("validate", last.password,
                  Append(last.events,
                         Ev("validate", NoneVal,
                            [min_length |-> min_length,
                             special_chars |-> special_chars],
                            validate_password_params(last.password, min_length,
                                                     special_chars))),
                  "returned")

ValidatorSpec == ValidatorInit /\ [][ValidatePassword]_vars

-----------------------------------------------------------------------------
(* hash_current_passwords on its own, under each connection kind and with   *)
(* the column names its caller configures.                                  *)

\* The connection kinds, and for the username_col / password_col arguments
\* the defaults and a caller's own names.
BulkConfigs ==
  { c \in [impl : {"login_form", "helpers"}, conn : {"sql", "supabase"},
           constrain_password : {TRUE}, retrieve_role : {FALSE},
           role_col : {"role"}, role_default : {"user"},
           allow_guest : {TRUE}, allow_create : {TRUE},
           username_col : {"username", "user_name"},
           password_col : {"password", "pwd"}] :
      c.impl = "helpers" => c.conn = "supabase" }

\* pair["password"] / pair["username"]: the rows of the scan are keyed by the
\* configured column names, the loop reads the default ones (KeyError).
KeyErrorOnPair(c) == c.password_col # "password" \/ c.username_col # "username"

\* A bulk run under configured column names: with a pair to process it ends
\* by the KeyError after the scan, before any update is issued.
BulkWithColumns(c, st, order, r) ==
  IF /\ KeyErrorOnPair(c)
     /\ Len(r.events) >= 1 /\ r.events[1].ok
     /\ Len(ScanUnhashed(st, order)) > 0
  THEN Run(r.session, st, <<r.events[1]>>, "none", "raised")
  ELSE r

BulkInit ==
  /\ cfg \in BulkConfigs
  /\ store \in InitStores(cfg)
  /\ session = InitSession
  /\ last = Last("init", NoneVal, PwEmpty, Inert(InitSession, store))

\* __init__.py and db.py
BulkLoop ==
  \E order \in ScanOrders, salt \in Salts, fault \in BulkFaults :
    Apply("bulk", NoneVal, PwEmpty,
          BulkWithColumns(cfg, store, order,
            HashCurrentPasswordsLoop(cfg, session, store, order, salt, fault)))

\* _helpers/db.py
BulkUpsert ==
  /\ cfg.impl = "helpers"
  /\ \E order \in ScanOrders, salt \in Salts, fault \in BulkFaults :
       Apply("bulk", NoneVal, PwEmpty,
             BulkWithColumns(cfg, store, order,
               HashCurrentPasswordsUpsert(session, store, order, salt, fault)))

BulkNext ==
  \/ BulkLoop
  \/ BulkUpsert

BulkSpec == BulkInit /\ [][BulkNext]_vars

-----------------------------------------------------------------------------
(* Concurrent sessions.  Two browser sessions and one maintenance run work  *)
(* on the same table; the steps of each are its store calls, the code       *)
(* between two store calls runs with the step that follows the first.  In   *)
(* this specification                                                       *)
(*   session  is a function: session id -> st.session_state of that session *)
(*   last     is a function: process -> its position (pc), the operation it *)
(*            runs, what was submitted, the values it has read so far and   *)
(*            what it wrote, the message shown and how it ended             *)
(* No store call raises a store error other than the uniqueness violation.  *)

Sessions == {"s1", "s2"}

Procs == Sessions \cup {"bulk"}

\* Usernames and passwords submitted by the concurrent sessions.
ConcUsernames == {"alice", "bob"}

ConcPasswords == {PwGood, PwPlain}

ConcConfigs ==
  { c \in Configs : c.allow_create /\ ~c.allow_guest /\ c.constrain_password
                    /\ c.role_col = "role" }

Proc(pc, op, u, p, read, pairs, wrote, fresh, message, outcome) ==
  [pc |-> pc, op |-> op, username |-> u, password |-> p, read |-> read,
   pairs |-> pairs, wrote |-> wrote, fresh |-> fresh, message |-> message,
   outcome |-> outcome]

IdleProc ==
  Proc("idle", "none", NoneVal, PwEmpty, NoRow, << >>, << >>, FALSE, "none", "none")

\* The process has ended: by st.stop(), st.rerun(), a return or an exception.
Done(pr, wrote, message, outcome) ==
  [pr EXCEPT !.pc = "done", !.wrote = wrote, !.message = message,
             !.outcome = outcome]

ConcInit ==
  /\ cfg \in ConcConfigs
  /\ store \in InitStores(cfg)
  /\ session = [sid \in Sessions |-> InitSession]
  /\ last = [pr \in Procs |-> IdleProc]

\* The create form is submitted: the code up to the try block.
ConcCreateSubmit(sid) ==
  /\ last[sid].pc = "idle"
  /\ \E u \in ConcUsernames, p \in ConcPasswords :
       LET pr == [IdleProc EXCEPT !.op = "create", !.username = u, !.password = p,
                                  !.fresh = ~store[u].present]
       IN  /\ last' = [last EXCEPT ![sid] =
                         IF cfg.constrain_password /\ ~validate_password(p)
                         THEN Done(pr, << >>,
                                   IF cfg.impl = "login_form"
                                   THEN "password_constraint_check_fail"
                                   ELSE "password_fail_message", "stopped")
                         ELSE [pr EXCEPT !.pc = "insert"]]
           /\ UNCHANGED <<cfg, store, session>>

\* The try block of create-account: the INSERT and what follows it.
ConcCreateInsert(sid) ==
  /\ last[sid].pc = "insert"
  /\ \E salt \in Salts :
       LET pr == last[sid]
           r == IF cfg.impl = "login_form"
                THEN LoginFormCreate(cfg, session[sid], store, pr.username,
                                     pr.password, salt, 0)
                ELSE HandleCreateAccount(cfg, session[sid], store, pr.username,
                                         pr.password, pr.password, salt, 0)
       IN  /\ store' = r.store
           /\ session' = [session EXCEPT ![sid] = r.session]
           /\ last' = [last EXCEPT ![sid] = Done(pr, r.events, r.message, r.outcome)]
           /\ UNCHANGED cfg

\* A migration that hashes the submitted password in place of the value read.
LegacyMigrationOfSubmitted(db_password, password, salt) ==
  RehashValue(password, salt)

\* rehash_pwd_in_db(db_password, username): the value a login writes over a
\* legacy value.
LegacyMigration(db_password, password, salt) == RehashValue(db_password, salt)

\* The login code after the stored value is known to carry the tag:
\* verification, the role read, the session update, the needs-rehash check.
ConcVerify(c, s, pr, db, wrote) ==
  LET u == pr.username
      ver == verify_password(db, pr.password)
      failed == IF c.impl = "login_form" THEN [s EXCEPT !.authenticated = FALSE]
                ELSE reset_authentication(s)
      rawRole == IF c.retrieve_role THEN RoleRead(c, pr.read) ELSE NoneVal
      s1 == IF c.impl = "login_form"
            THEN login_success(s, u, IF c.retrieve_role THEN Lower(rawRole) ELSE NoneVal)
            ELSE set_authenticated(s, u)
  IN  IF ver = "raise" THEN [session |-> s, proc |-> Done(pr, wrote, "none", "raised")]
      ELSE IF ver = "false"
      THEN [session |-> failed,
            proc |-> Done(pr, wrote, "login_error_message", "returned")]
      ELSE IF c.impl = "login_form" /\ c.retrieve_role /\ rawRole = NoneVal
      THEN [session |-> s, proc |-> Done(pr, wrote, "none", "raised")]
      ELSE IF check_needs_rehash(db)
      THEN [session |-> s1, proc |-> [pr EXCEPT !.pc = "rehash", !.wrote = wrote]]
      ELSE [session |-> s1, proc |-> Done(pr, wrote, "none", "rerun")]

\* The login form is submitted: the SELECT and the code up to the next store
\* call.
ConcLoginSelect(sid) ==
  /\ last[sid].pc = "idle"
  /\ \E u \in ConcUsernames, p \in ConcPasswords :
       LET s == session[sid]
           data == SelectRows(store, u)
           pr == [IdleProc EXCEPT !.op = "login", !.username = u, !.password = p]
           failed == IF cfg.impl = "login_form"
                     THEN [s EXCEPT !.authenticated = FALSE]
                     ELSE reset_authentication(s)
       IN  /\ IF Len(data) = 0
              THEN /\ session' = [session EXCEPT ![sid] = failed]
                   /\ last' = [last EXCEPT ![sid] =
                                 Done(pr, << >>, "login_error_message", "returned")]
              ELSE LET pr1 == [pr EXCEPT !.read = data[1]]
                   IN  IF ~StartsWithTag(data[1].password)
                       THEN /\ session' = session
                            /\ last' = [last EXCEPT ![sid] =
                                          [pr1 EXCEPT !.pc = "migrate"]]
                       ELSE LET v == ConcVerify(cfg, s, pr1, data[1].password, << >>)
                            IN  /\ session' = [session EXCEPT ![sid] = v.session]
                                /\ last' = [last EXCEPT ![sid] = v.proc]
           /\ UNCHANGED <<cfg, store>>

\* The UPDATE that replaces the legacy value read, and the code after it.
ConcLoginMigrate(sid) ==
  /\ last[sid].pc = "migrate"
  /\ \E salt \in Salts :
       LET pr == last[sid]
           h1 == LegacyMigration(pr.read.password, pr.password, salt)
           v == ConcVerify(cfg, session[sid], pr, h1,
                           <<Ev("update", pr.username, h1, TRUE)>>)
       IN  /\ store' = UpdatePassword(store, pr.username, h1)
           /\ session' = [session EXCEPT ![sid] = v.session]
           /\ last' = [last EXCEPT ![sid] = v.proc]
           /\ UNCHANGED cfg

\* The UPDATE after a needs-rehash check that said yes.
ConcLoginRehash(sid) ==
  /\ last[sid].pc = "rehash"
  /\ \E salt \in Salts :
       LET pr == last[sid]
           h2 == RehashValue(pr.password, salt)
       IN  /\ store' = UpdatePassword(store, pr.username, h2)
           /\ last' = [last EXCEPT ![sid] =
                         Done(pr, Append(pr.wrote, Ev("update", pr.username, h2, TRUE)),
                              "none", "rerun")]
           /\ UNCHANGED <<cfg, session>>

\* hash_current_passwords: the scan; pairs holds the usernames and values read
ConcBulkScan ==
  /\ last["bulk"].pc = "idle"
  /\ \E order \in ScanOrders, variant \in {"update", "upsert"} :
       LET pr == [IdleProc EXCEPT !.op = "bulk"]
           rows == ScanUnhashed(store, order)
           pairs == [i \in 1..Len(rows) |->
                       [username |-> rows[i], password |-> store[rows[i]].password]]
       IN  /\ variant = "upsert" => cfg.impl = "helpers"
           /\ last' = [last EXCEPT !["bulk"] =
                IF variant = "update" /\ cfg.impl = "login_form" /\ cfg.conn = "sql"
                THEN Done(pr, << >>, "none", "raised")
                ELSE IF Len(rows) = 0
                THEN Done(pr, << >>, "all_passwords_already_hashed", "returned")
                ELSE [pr EXCEPT !.pc = variant, !.pairs = pairs]]
           /\ UNCHANGED <<cfg, store, session>>

\* one update of the loop
ConcBulkUpdate ==
  /\ last["bulk"].pc = "update"
  /\ \E salt \in Salts :
       LET pr == last["bulk"]
           pair == Head(pr.pairs)
           h == generate_pwd_hash(pair.password, salt)
           wrote == Append(pr.wrote, Ev("update", pair.username, h, TRUE))
       IN  /\ store' = UpdatePassword(store, pair.username, h)
           /\ last' = [last EXCEPT !["bulk"] =
                IF Len(pr.pairs) = 1
                THEN Done([pr EXCEPT !.pairs = << >>], wrote,
                          "all_passwords_hashed", "returned")
                ELSE [pr EXCEPT !.pairs = Tail(pr.pairs), !.wrote = wrote]]
           /\ UNCHANGED <<cfg, session>>

RECURSIVE UpsertPairs(_, _, _)
UpsertPairs(st, pairs, salt) ==
  IF pairs = << >> THEN st
  ELSE UpsertPairs(UpdatePassword(st, Head(pairs).username,
                                  generate_pwd_hash(Head(pairs).password, salt)),
                   Tail(pairs), salt)

\* the one upsert of _helpers/db.py
ConcBulkUpsert ==
  /\ last["bulk"].pc = "upsert"
  /\ \E salt \in Salts :
       LET pr == last["bulk"]
           wrote == [i \in 1..Len(pr.pairs) |->
                       Ev("upsert", pr.pairs[i].username,
                          generate_pwd_hash(pr.pairs[i].password, salt), TRUE)]
       IN  /\ store' = UpsertPairs(store, pr.pairs, salt)
           /\ last' = [last EXCEPT !["bulk"] =
                         Done([pr EXCEPT !.pairs = << >>], wrote,
                              "all_passwords_hashed", "returned")]
           /\ UNCHANGED <<cfg, session>>

ConcNext ==
  \/ \E sid \in Sessions : ConcCreateSubmit(sid)
  \/ \E sid \in Sessions : ConcCreateInsert(sid)
  \/ \E sid \in Sessions : ConcLoginSelect(sid)
  \/ \E sid \in Sessions : ConcLoginMigrate(sid)
  \/ \E sid \in Sessions : ConcLoginRehash(sid)
  \/ ConcBulkScan
  \/ ConcBulkUpdate
  \/ ConcBulkUpsert

ConcSpec == ConcInit /\ [][ConcNext]_vars

\* return client, the last statement of login_form: it is reached by a run in
\* which no button was pressed or whose handler fell through; st.stop(),
\* st.rerun() and an exception leave login_form before it.
ReturnsClient(outcome) == outcome \in {"inert", "returned"}

\* The invocation of login_form that led to this state returned the client.
ClientReturned ==
  /\ cfg.impl = "login_form"
  /\ last.op \in {"create", "login", "guest"}
  /\ ReturnsClient(last.outcome)

-----------------------------------------------------------------------------
(* _reset_authentication as a function of st.session_state: it is applied   *)
(* to each session state the forms of the package leave behind.             *)

\* The session states written by login_success, _set_authenticated and the
\* guest branches, and the initial one.
ProducedSessions ==
  {InitSession}
    \cup { [authenticated |-> TRUE, username |-> u, role |-> r] :
             u \in Usernames, r \in {NoneVal, "", "admin"} }
    \cup { [authenticated |-> TRUE, username |-> NoneVal, role |-> r] :
             r \in {NoneVal, "guest"} }

ResetInit ==
  /\ cfg \in Configs
  /\ store \in InitStores(cfg)
  /\ session \in ProducedSessions
  /\ last = Last("init", NoneVal, PwEmpty, Inert(session, store))

ResetSession ==
  Apply("logout", NoneVal, PwEmpty,
        Run(reset_authentication(session), store, << >>, "none", "returned"))

ResetSpec == ResetInit /\ [][ResetSession]_vars

-----------------------------------------------------------------------------
(* Properties.                                                              *)

Unauthenticated(s) ==
  ~s.authenticated /\ s.username = NoneVal /\ s.role = NoneVal

\* Some store call of the run raised a store error.
Faulted(evs) == \E i \in StoreCalls(evs) : ~evs[i].ok

\* The step just taken is a submitted (not inert) run of one of the given forms.
Submitted(l, ops) == l.op \in ops /\ l.outcome # "inert"

\* p is the rightful password of the stored credential value.
Rightful(stored, p) ==
  /\ p.kind = "text"
  /\ IF stored.kind = "hash" THEN stored.chars = p.chars
     ELSE ~StartsWithTag(stored) /\ stored = p

\* C1: in every reachable session state, authenticated = false implies that
\* username is absent and role is absent.
C1_UnauthenticatedHasNoIdentity ==
  ~session.authenticated =>
    session.username = NoneVal /\ session.role = NoneVal

\* A failed login attempt that followed the reading of a row.
C1_Witness ==
  /\ last.op = "login"
  /\ last.message = "login_error_message"
  /\ Len(last.events) >= 2
  /\ ~session.authenticated

\* C2: once the session is authenticated, a create-account, login or
\* guest-login step issues no store call and leaves session and store as they
\* were.
C2_AuthenticatedFormsInert ==
  [][(session.authenticated /\ last'.op \in {"create", "login", "guest"})
       => /\ session' = session
          /\ store' = store
          /\ StoreCalls(last'.events) = {}]_vars

C2_Witness ==
  /\ session.authenticated
  /\ session.username = "alice"
  /\ last.op = "login"
  /\ last.outcome = "inert"

\* C3: a submitted login whose store calls succeed, with a username that has
\* no row or with a password that is not the rightful one of the row, ends
\* with the one generic message and the one Unauthenticated session.
C3_FailuresIndistinguishable ==
  [][(/\ Submitted(last', {"login"})
      /\ last'.username # "" /\ ~IsEmptyStr(last'.password)
      /\ ~Faulted(last'.events)
      /\ \/ ~store[last'.username].present
         \/ ~Rightful(store[last'.username].password, last'.password))
       => /\ last'.message = "login_error_message"
          /\ last'.outcome = "returned"
          /\ Unauthenticated(session')]_vars

\* A wrong-password login against an existing row, on a table where another
\* username has no row.
C3_Witness ==
  /\ Submitted(last, {"login"})
  /\ last.username = "alice" /\ store["alice"].present
  /\ ~store["bob"].present
  /\ \E i \in 1..Len(last.events) :
       last.events[i].e = "verify" /\ ~last.events[i].ok
  /\ last.message = "login_error_message"

\* C4: in a login against a row whose stored value lacks the hash tag, every
\* verification is preceded by a successful update of that row to a hash of
\* the stored value, is made against that hash and not against the legacy
\* value, and the row holds that hash afterwards.
C4_MigrationBeforeVerification ==
  [][(/\ Submitted(last', {"login"})
      /\ store[last'.username].present
      /\ ~StartsWithTag(store[last'.username].password))
       => LET u == last'.username
              evs == last'.events
              stored == store[u].password
          IN  \A i \in 1..Len(evs) :
                evs[i].e = "verify" =>
                  \E j \in 1..(i - 1) :
                    /\ evs[j].e = "update" /\ evs[j].ok /\ evs[j].u = u
                    /\ evs[j].v.kind = "hash"
                    /\ evs[j].v.chars = stored.chars
                    /\ evs[i].v = evs[j].v
                    /\ evs[i].v # stored
                    /\ store'[u].password = evs[j].v]_vars

\* A login that migrated a legacy row and then verified.
C4_Witness ==
  /\ Submitted(last, {"login"})
  /\ Len(last.events) >= 3
  /\ last.events[2].e = "update" /\ last.events[2].ok
  /\ last.events[3].e = "verify"
  /\ store[last.username].password = last.events[2].v

\* C5: a login with the legacy value v of the user's row as password, whose
\* store calls succeed, ends in Authenticated(username) with the row holding a
\* tagged value that verifies against v.
C5_LegacyLoginAuthenticates ==
  [][(/\ Submitted(last', {"login"})
      /\ last'.username # ""
      /\ store[last'.username].present
      /\ ~StartsWithTag(store[last'.username].password)
      /\ ~IsEmptyStr(store[last'.username].password)
      /\ last'.password = store[last'.username].password
      /\ ~Faulted(last'.events))
       => /\ session'.authenticated
          /\ session'.username = last'.username
          /\ StartsWithTag(store'[last'.username].password)
          /\ verify_password(store'[last'.username].password,
                             store[last'.username].password) = "true"]_vars

\* C6: every password value a step writes to the store is a computed hash and
\* differs from the password submitted in that step.
C6_NeverStoredInClear ==
  [][\A u \in Usernames :
       (store'[u] # store[u]) =>
         /\ store'[u].password.kind = "hash"
         /\ store'[u].password # last'.password]_vars

\* C7: under every connection kind and option setting, a create-account
\* submission with a new non-empty username and a non-empty password that
\* passes the enforced checks, and in which no store call raises, ends in
\* Authenticated(username) with exactly that row inserted, holding a hash that
\* verifies against the submitted password.  (Stated for passwords that do
\* not themselves begin with the hash tag; those are the case of C6.)
C7_CreateAuthenticatesAndInserts ==
  [][(/\ Submitted(last', {"create"})
      /\ last'.username # "" /\ ~IsEmptyStr(last'.password)
      /\ ~store[last'.username].present
      /\ last'.message \notin {"password_mismatch_message", "fill_in_all_fields"}
      /\ (cfg.constrain_password => validate_password(last'.password))
      /\ ~StartsWithTag(last'.password)
      /\ ~Faulted(last'.events))
       => /\ session'.authenticated
          /\ session'.username = last'.username
          /\ store'[last'.username].present
          /\ \A w \in Usernames \ {last'.username} : store'[w] = store[w]
          /\ store'[last'.username].password.kind = "hash"
          /\ verify_password(store'[last'.username].password, last'.password)
               = "true"]_vars

\* C8: a create-account submission with a username that already has a row
\* leaves the session unauthenticated and the store as it was.
C8_DuplicateCreateRejected ==
  [][(Submitted(last', {"create"}) /\ store[last'.username].present)
       => /\ ~session'.authenticated
          /\ store' = store]_vars

\* A create-account run whose insert was refused for a username with a row.
C8_Witness ==
  /\ Submitted(last, {"create"})
  /\ Len(last.events) = 1 /\ ~last.events[1].ok
  /\ store[last.username].present
  /\ last.message = "exception_text"
  /\ ~session.authenticated

\* C9: a create-account or login submission with an empty username or
\* password, a mismatching confirmation, or a password that violates the
\* enforced policy issues no store call and leaves session and store as they
\* were.
C9_ValidationErrorsIssueNoStoreCall ==
  [][(/\ Submitted(last', {"create", "login"})
      /\ \/ last'.username = ""
         \/ IsEmptyStr(last'.password)
         \/ last'.message = "password_mismatch_message"
         \/ /\ last'.op = "create"
            /\ cfg.constrain_password
            /\ ~validate_password(last'.password))
       => /\ StoreCalls(last'.events) = {}
          /\ session' = session
          /\ store' = store]_vars

\* C10: a create-account or login run in which a store call raised ends with
\* a message, not by an exception, and with the session unauthenticated.
C10_StoreErrorsCaught ==
  (last.op \in {"create", "login"} /\ Faulted(last.events))
    => /\ last.outcome # "raised"
       /\ last.message # "none"
       /\ ~session.authenticated

\* The stored value carries the hash tag without being a well-formed hash.
Malformed(stored) == StartsWithTag(stored) /\ stored.kind # "hash"

\* C11: verification of a malformed stored value (tagged, not a well-formed
\* hash) returns false for every submitted password, and a submitted login
\* against such a row, with its store calls succeeding, makes that
\* verification and ends as a wrong-password login does: the generic message,
\* the handler returning, the session Unauthenticated, the store as it was.
C11_MalformedHashIsMismatch ==
  [][(/\ Submitted(last', {"login"})
      /\ last'.username # "" /\ ~IsEmptyStr(last'.password)
      /\ ~Faulted(last'.events)
      /\ store[last'.username].present
      /\ Malformed(store[last'.username].password))
       => /\ verify_password(store[last'.username].password, last'.password)
               = "false"
          /\ \E i \in 1..Len(last'.events) :
               /\ last'.events[i].e = "verify"
               /\ last'.events[i].v = store[last'.username].password
               /\ ~last'.events[i].ok
          /\ last'.message = "login_error_message"
          /\ last'.outcome = "returned"
          /\ Unauthenticated(session')
          /\ store' = store]_vars

\* A login against a row holding a malformed value ended with the generic
\* message.
C11_Witness ==
  /\ Submitted(last, {"login"})
  /\ last.username = "alice"
  /\ store["alice"].present /\ Malformed(store["alice"].password)
  /\ Len(last.events) = 2
  /\ last.events[2].e = "verify" /\ ~last.events[2].ok
  /\ last.message = "login_error_message"
  /\ Unauthenticated(session)

\* C12: a login run whose lookup of the row raised a store error ends as a
\* failed credential check does: with the generic wrong-username/password
\* message, the handler returning, the session unauthenticated.
C12_LookupErrorShowsGenericMessage ==
  (/\ last.op = "login"
   /\ Len(last.events) >= 1
   /\ last.events[1].e = "select" /\ ~last.events[1].ok)
    => /\ last.message = "login_error_message"
       /\ last.outcome = "returned"
       /\ ~session.authenticated

\* C13: in every login run, a needs-rehash check is made directly after a
\* verification that returned true, on the hash that was verified, and only
\* when the submitted password is the rightful one of that hash; an update
\* that follows a verification is directly preceded by a needs-rehash check
\* that said yes.  A run whose verification failed or was not reached makes
\* no such check and no such update.
C13_RehashCheckOnlyAfterVerified ==
  last.op = "login" =>
    LET evs == last.events
    IN  \A i \in 1..Len(evs) :
          /\ evs[i].e = "needs_rehash" =>
                /\ i > 1
                /\ evs[i - 1].e = "verify" /\ evs[i - 1].ok
                /\ evs[i - 1].v = evs[i].v
                /\ Rightful(evs[i].v, last.password)
          /\ (evs[i].e = "update" /\ \E j \in 1..(i - 1) : evs[j].e = "verify") =>
                /\ evs[i - 1].e = "needs_rehash" /\ evs[i - 1].ok
          /\ (evs[i].e = "verify" /\ ~evs[i].ok) => i = Len(evs)

\* A login that verified, found the hash to be under older parameters and
\* rewrote it.
C13_Witness ==
  /\ Submitted(last, {"login"})
  /\ Len(last.events) = 4
  /\ last.events[2].e = "verify" /\ last.events[2].ok
  /\ last.events[3].e = "needs_rehash" /\ last.events[3].ok
  /\ last.events[4].e = "update" /\ last.events[4].ok
  /\ session.authenticated

\* C14: a session that holds a username is authenticated, and in the step in
\* which a session takes up a username the store holds a row with that
\* username: the row a login read, or the row a create-account run inserted.
C14_UsernameHasRowAtAuthentication ==
  [][/\ session.username # NoneVal => session.authenticated
     /\ session'.username # NoneVal => session'.authenticated
     /\ (session'.username # NoneVal /\ session'.username # session.username)
          => /\ last'.op \in {"login", "create"}
             /\ last'.username = session'.username
             /\ store'[session'.username].present
             /\ last'.op = "login" => store[session'.username].present]_vars

\* A create-account run authenticated a username that had no row before.
C14_Witness ==
  /\ session.authenticated
  /\ session.username = "bob"
  /\ Submitted(last, {"create"})
  /\ Len(last.events) = 1
  /\ last.events[1].e = "insert" /\ last.events[1].ok
  /\ store["bob"].present

\* C15: a guest-login step is taken only with allow_guest enabled; taken in
\* an unauthenticated session it ends with authenticated true and no
\* username, issues no store call and leaves the store as it was.
C15_GuestLoginAuthenticatesWithoutStore ==
  [][last'.op = "guest"
       => /\ cfg.allow_guest
          /\ ~session.authenticated
               => /\ session'.authenticated
                  /\ session'.username = NoneVal
                  /\ last'.outcome = "rerun"
                  /\ last'.events = << >>
                  /\ store' = store]_vars

\* A guest session, entered from the unauthenticated one.
C15_Witness ==
  /\ cfg.allow_guest
  /\ Submitted(last, {"guest"})
  /\ last.outcome = "rerun"
  /\ session.authenticated
  /\ session.username = NoneVal

\* C16: with retrieve_role disabled, the session role is absent in every
\* reachable state.
C16_NoRoleWithoutRetrieval ==
  ~cfg.retrieve_role => session.role = NoneVal

\* C17: after a session reset, from whatever session state it was applied
\* to, authenticated is false, the username is absent and the role is absent.
C17_ResetLeavesUnauthenticated ==
  last.op = "logout" => Unauthenticated(session)

\* C18: an invocation of login_form returns the connection handle only when
\* it ends with the session authenticated.
C18_HandleOnlyWhileAuthenticated ==
  ClientReturned => session.authenticated

\* C19: the value returned by hashing starts with the hash tag; hashing it
\* again returns it unchanged, and hashing a text that already starts with
\* the hash tag returns that text unchanged.
C19_HashIdempotentOnceTagged ==
  /\ last.op \in {"hash", "hash_again"} =>
       /\ StartsWithTag(last.events[1].v)
       /\ StartsWithTag(last.password) => last.events[1].v = last.password
  /\ last.op = "hash_again" => last.events[2].v = last.events[1].v

\* A password without the tag was hashed and the hash was hashed again.
C19_Witness ==
  /\ last.op = "hash_again"
  /\ last.password = PwGood
  /\ last.events[1].v.kind = "hash"
  /\ last.events[1].v # last.password
  /\ last.events[2].v = last.events[1].v

\* C20: for all typed texts p and q, verifying q against the value returned
\* by hashing p returns true when q = p and false when q # p, and does not
\* raise.
C20_VerifyIffSamePassword ==
  last.op = "verify" =>
    /\ last.outcome = "returned"
    /\ last.events[2].ok <=> (last.events[2].v = last.password)

\* C21: validate_password(password, min_length, special_chars) returns true
\* exactly when the password is at least min_length long and holds an
\* uppercase letter, a lowercase letter, a digit and a character of
\* special_chars; the call leaves session and store as they were.
C21_ValidateIffAllRequirements ==
  [][last'.op = "validate"
       => LET parts == last'.events[1].v
              args == last'.events[2].v
              length == (IF parts.upper THEN 1 ELSE 0) + (IF parts.lower THEN 1 ELSE 0)
                          + (IF parts.digit THEN 1 ELSE 0)
                          + (IF parts.punct # "" THEN 1 ELSE 0) + parts.pad
          IN  /\ last'.events[2].ok
                   <=> /\ length >= args.min_length
                       /\ parts.upper /\ parts.lower /\ parts.digit
                       /\ parts.punct \in args.special_chars
              /\ session' = session
              /\ store' = store]_vars

\* A text with all four classes that is accepted under the shorter
\* min_length and would be one character short of the default.
C21_Witness ==
  /\ last.op = "validate"
  /\ Len(last.password.chars) = MinLength - 1
  /\ last.events[2].v.min_length < MinLength
  /\ last.events[2].ok

\* The usernames a run updated, in the order of its successful update calls.
UpdatedBy(evs) ==
  { evs[i].u : i \in { j \in 1..Len(evs) : evs[j].e = "update" /\ evs[j].ok } }

LegacyUsers(st) == { u \in Usernames : IsLegacy(st, u) }

\* C22: a bulk run issues one update per legacy row; however it ends, each
\* row either is as it was or was a legacy row and now holds a tagged hash
\* of its former value; a run that ends by a store error has updated exactly
\* the rows of its successful update calls; and a run in which no store call
\* raises, taken at any time (so also after a failed one), leaves no legacy
\* row and leaves the rows that were tagged as they were.
C22_BulkRestartable ==
  [][last'.op = "bulk"
       => LET evs == last'.events
              legacy == LegacyUsers(store)
          IN  /\ \A u \in Usernames :
                   \/ store'[u] = store[u]
                   \/ /\ u \in legacy
                      /\ store'[u].password.kind = "hash"
                      /\ store'[u].password.chars = store[u].password.chars
                      /\ store'[u].role = store[u].role
              /\ \A i \in 1..Len(evs) : evs[i].e \in {"select", "update"}
              /\ { u \in Usernames : store'[u] # store[u] } = UpdatedBy(evs)
              /\ ~Faulted(evs)
                   => /\ UpdatedBy(evs) = legacy
                      /\ Cardinality({ i \in 1..Len(evs) : evs[i].e = "update" })
                           = Cardinality(legacy)
                      /\ LegacyUsers(store') = {}]_vars

\* C23: under every connection kind and every configured pair of column
\* names, a bulk run in which no store call raises finishes with its message
\* and leaves no row with an untagged value; each row it upgraded verifies
\* against its former legacy value, and the rows that were tagged are as
\* they were.
C23_BulkHashesEveryLegacyRow ==
  [][(last'.op = "bulk" /\ ~Faulted(last'.events))
       => /\ last'.outcome = "returned"
          /\ last'.message \in {"all_passwords_hashed", "all_passwords_already_hashed"}
          /\ \A u \in Usernames :
               /\ store'[u].present => StartsWithTag(store'[u].password)
               /\ IsLegacy(store, u)
                    => verify_password(store'[u].password, store[u].password) = "true"
               /\ ~IsLegacy(store, u) => store'[u] = store[u]]_vars

\* C24: no step removes a row; a row appears only by a create-account run,
\* under the username submitted to it; an existing row changes only in its
\* password value, and only the row of the username submitted to a login or
\* a row a bulk run updated; the role of an existing row and every other row
\* stay as they were.
C24_StoreFrame ==
  [][\A u \in Usernames :
       /\ store[u].present
            => /\ store'[u].present
               /\ store'[u].role = store[u].role
               /\ store'[u] # store[u]
                    => \/ last'.op = "login" /\ last'.username = u
                       \/ last'.op = "bulk" /\ IsLegacy(store, u)
       /\ (~store[u].present /\ store'[u].present)
            => last'.op = "create" /\ last'.username = u]_vars

\* A login rewrote the password of a row that carries a role.
C24_Witness ==
  /\ Submitted(last, {"login"})
  /\ last.username = "alice"
  /\ \E i \in 1..Len(last.events) :
       /\ last.events[i].e = "update" /\ last.events[i].ok
       /\ store["alice"].password = last.events[i].v
  /\ store["alice"].role = "Admin"

\* C25: a submitted login with the rightful password of a row whose hash was
\* made under older parameters, in which no store call raises, ends in
\* Authenticated(username) with the row holding a hash of the submitted
\* password under the current parameters, which verifies against it.
C25_RehashAfterLogin ==
  [][(/\ Submitted(last', {"login"})
      /\ last'.username # ""
      /\ store[last'.username].present
      /\ store[last'.username].password.kind = "hash"
      /\ store[last'.username].password.params # CurrentParams
      /\ Rightful(store[last'.username].password, last'.password)
      /\ ~Faulted(last'.events))
       => LET u == last'.username
              new == store'[u].password
          IN  /\ session'.authenticated
              /\ session'.username = u
              /\ new.kind = "hash"
              /\ new.chars = last'.password.chars
              /\ verify_password(new, last'.password) = "true"
              /\ ~check_needs_rehash(new)]_vars

\* C26: under every connection kind and role column name, a login that ends
\* authenticated with retrieve_role enabled leaves as session role the
\* lowercase form of the role stored in the row of the logged-in user.
C26_LoginRoleIsLowercaseOfStored ==
  [][(/\ Submitted(last', {"login"})
      /\ cfg.retrieve_role
      /\ ~session.authenticated /\ session'.authenticated)
       => /\ store[last'.username].role # NoneVal
          /\ session'.role = Lower(store[last'.username].role)]_vars

\* C27: under every connection kind, a create-account submission with
\* retrieve_role enabled, a new username and a password that passes the
\* enforced policy, in which no store call raises, inserts the row with the
\* lowercase form of role_default in its role column.
C27_CreateStoresLowercaseDefaultRole ==
  [][(/\ Submitted(last', {"create"})
      /\ cfg.retrieve_role
      /\ ~store[last'.username].present
      /\ (cfg.constrain_password => validate_password(last'.password))
      /\ ~Faulted(last'.events))
       => /\ store'[last'.username].present
          /\ store'[last'.username].role = Lower(cfg.role_default)
          /\ store'[last'.username].role # cfg.role_default]_vars

\* C28: after a submitted login with a username that has no row or with a
\* password that is not the rightful one of the row, and after a submitted
\* create-account whose insert raised a store error, the session is the
\* initial one: authenticated false, no username, no role.
C28_FailedAttemptLeavesInitialSession ==
  [][(\/ /\ Submitted(last', {"login"})
         /\ ~Faulted(last'.events)
         /\ last'.message # "fill_in_all_fields"
         /\ \/ ~store[last'.username].present
            \/ ~Rightful(store[last'.username].password, last'.password)
      \/ /\ Submitted(last', {"create"})
         /\ Faulted(last'.events))
       => /\ session' = InitSession
          /\ last'.message \in {"login_error_message", "exception_text"}]_vars

\* A create-account run for a new username whose insert raised a store error.
C28_Witness ==
  /\ Submitted(last, {"create"})
  /\ Len(last.events) = 1
  /\ last.events[1].e = "insert" /\ ~last.events[1].ok
  /\ ~store[last.username].present
  /\ last.message = "exception_text"
  /\ session = InitSession

\* C29: under every interleaving of the store calls of two logins and a bulk
\* run, a write over a legacy value leaves a tagged value that verifies
\* against that legacy value, and a write over a hash leaves a hash that
\* verifies against every password the overwritten one verified against; so
\* whichever writer comes last, a tagged value of a row that was legacy
\* verifies against the row's legacy plaintext.
C29_ConcurrentMigrationKeepsPassword ==
  [][\A u \in Usernames :
       (store[u].present /\ store'[u] # store[u])
         => LET old == store[u].password
                new == store'[u].password
            IN  /\ store'[u].present
                /\ new.kind = "hash"
                /\ IF ~StartsWithTag(old)
                   THEN verify_password(new, old) = "true"
                   ELSE \A p \in Passwords :
                          verify_password(old, p) = "true"
                            => verify_password(new, p) = "true"]_vars

\* A login migrated the legacy row of alice and authenticated against its own
\* hash; the bulk run, which had read the legacy value too, overwrote that
\* hash with another one.
C29_Witness ==
  /\ last["s1"].op = "login" /\ last["s1"].pc = "done"
  /\ session["s1"].authenticated
  /\ Len(last["s1"].wrote) = 1
  /\ last["s1"].wrote[1].u = "alice"
  /\ \E i \in 1..Len(last["bulk"].wrote) :
       /\ last["bulk"].wrote[i].u = "alice"
       /\ last["bulk"].wrote[i].v # last["s1"].wrote[1].v
       /\ store["alice"].password = last["bulk"].wrote[i].v

\* C30: when both sessions have submitted create-account for the same
\* username while it had no row, with a password that passes the policy,
\* and both runs have ended, the store holds the row of that username,
\* exactly one of the two sessions is Authenticated(username), and the other
\* is unauthenticated and was shown the store's error.
C30_ConcurrentCreateOneWinner ==
  (/\ \A sid \in Sessions :
        /\ last[sid].op = "create" /\ last[sid].pc = "done"
        /\ last[sid].fresh /\ last[sid].outcome # "stopped"
   /\ last["s1"].username = last["s2"].username)
    => LET u == last["s1"].username
       IN  /\ store[u].present
           /\ \E w \in Sessions :
                /\ session[w].authenticated /\ session[w].username = u
                /\ \A o \in Sessions \ {w} :
                     /\ ~session[o].authenticated
                     /\ session[o].username = NoneVal
                     /\ last[o].message = "exception_text"
                     /\ Len(last[o].wrote) = 1 /\ ~last[o].wrote[1].ok

\* C31: a submitted login that does not end authenticated, for a username
\* that has no row or whose row holds a tagged value, leaves the store as it
\* was: no row is inserted, updated or deleted.
C31_FailedLoginLeavesStore ==
  [][(/\ Submitted(last', {"login"})
      /\ ~session'.authenticated
      /\ \/ ~store[last'.username].present
         \/ StartsWithTag(store[last'.username].password))
       => store' = store]_vars

\* A login with a wrong password against a row that holds a tagged hash: the
\* row was selected and the verification failed.
C31_Witness ==
  /\ Submitted(last, {"login"})
  /\ ~session.authenticated
  /\ store[last.username].present
  /\ store[last.username].password.kind = "hash"
  /\ store[last.username].password.chars # last.password.chars
  /\ Len(last.events) = 2
  /\ last.events[1].e = "select" /\ last.events[1].ok
  /\ last.events[2].e = "verify" /\ ~last.events[2].ok
  /\ last.message = "login_error_message"

====
